---- MODULE Spec2Model ----
(***************************************************************************)
(* Model of the single-qubit tutor component QuantumTutorMVP               *)
(* (src/vite.config.js): the complex/matrix helpers, the gate table, and   *)
(* the session (state, circuit, history, selectedGate, measurement) with   *)
(* one action per button.                                                  *)
(*                                                                         *)
(* Numbers.  A JavaScript number is modelled as an IEEE special value      *)
(* (NaN, +Infinity, -Infinity) or as an exact element (a + b*sqrt2)/d of   *)
(* Q(sqrt2).  Every finite value the component can compute from the gate   *)
(* table lies in that field; the model abstracts from rounding in the      *)
(* last binary digit (far below the 1e-6 tolerance the specification       *)
(* uses) and from the sign of zero, and keeps the IEEE rules for 1/0,      *)
(* 0*Infinity and comparisons with NaN.                                    *)
(***************************************************************************)
EXTENDS Integers, Sequences, FiniteSets, TLC

\* state .. measurement: the component's useState cells.  err: whether the
\* last handler ended by a TypeError.  last: the handler that ran last.
VARIABLES state, circuit, history, selectedGate, measurement, err, last

vars == <<state, circuit, history, selectedGate, measurement, err, last>>

\* ------------------------------------------------------------------ bounds
MaxCircuit == 2
SampleDen == 4

\* --------------------------------------------------------------- numbers
\* The operations on numbers and on complex numbers are written as functions,
\* so that an argument is evaluated once, before the call, as in JavaScript.
Numbers == [k : {"fin", "inf", "nan"}, a : Int, b : Int, d : Int]

Abs(n) == IF n < 0 THEN -n ELSE n

GCD[m \in Nat, n \in Nat] == IF n = 0 THEN m ELSE GCD[n, m % n]

NaN == [k |-> "nan", a |-> 0, b |-> 0, d |-> 1]
Inf(sgn) == [k |-> "inf", a |-> sgn, b |-> 0, d |-> 1]

\* the finite number (a + b*sqrt2)/d in lowest terms, d > 0
Rat[a \in Int, b \in Int, d \in Int] ==
  LET g == GCD[GCD[Abs(a), Abs(b)], Abs(d)]
      s == IF d < 0 THEN -1 ELSE 1
  IN [k |-> "fin", a |-> (s * a) \div g, b |-> (s * b) \div g, d |-> Abs(d) \div g]

Zero == Rat[0, 0, 1]
One == Rat[1, 0, 1]
SQRT1_2 == Rat[0, 1, 2]

\* sign of a finite or infinite number: -1, 0, 1
Sign[x \in Numbers] ==
  IF x.k = "inf" THEN x.a
  ELSE IF x.a >= 0 /\ x.b >= 0 THEN (IF x.a = 0 /\ x.b = 0 THEN 0 ELSE 1)
  ELSE IF x.a <= 0 /\ x.b <= 0 THEN -1
  ELSE IF x.a > 0 THEN (IF x.a * x.a > 2 * x.b * x.b THEN 1 ELSE -1)
  ELSE (IF 2 * x.b * x.b > x.a * x.a THEN 1 ELSE -1)

fneg[x \in Numbers] ==
  IF x.k = "nan" THEN NaN
  ELSE IF x.k = "inf" THEN Inf(-x.a)
  ELSE Rat[-x.a, -x.b, x.d]

fadd[x \in Numbers, y \in Numbers] ==
  IF x.k = "nan" \/ y.k = "nan" THEN NaN
  ELSE IF x.k = "inf" /\ y.k = "inf" THEN (IF x.a = y.a THEN x ELSE NaN)
  ELSE IF x.k = "inf" THEN x
  ELSE IF y.k = "inf" THEN y
  ELSE Rat[x.a * y.d + y.a * x.d, x.b * y.d + y.b * x.d, x.d * y.d]

fsub[x \in Numbers, y \in Numbers] == fadd[x, fneg[y]]

fmul[x \in Numbers, y \in Numbers] ==
  IF x.k = "nan" \/ y.k = "nan" THEN NaN
  ELSE IF x.k = "inf" \/ y.k = "inf"
       THEN (IF Sign[x] = 0 \/ Sign[y] = 0 THEN NaN ELSE Inf(Sign[x] * Sign[y]))
  ELSE Rat[x.a * y.a + 2 * x.b * y.b, x.a * y.b + x.b * y.a, x.d * y.d]

\* 1 / s
frecip[s \in Numbers] ==
  IF s.k = "nan" THEN NaN
  ELSE IF s.k = "inf" THEN Zero
  ELSE IF Sign[s] = 0 THEN Inf(1)
  ELSE Rat[s.d * s.a, -(s.d * s.b), s.a * s.a - 2 * s.b * s.b]

\* x < y as JavaScript evaluates it: false when either side is NaN
flt[x \in Numbers, y \in Numbers] ==
  IF x.k = "nan" \/ y.k = "nan" THEN FALSE
  ELSE IF x.k = "inf" /\ y.k = "inf" THEN x.a < y.a
  ELSE Sign[fsub[y, x]] > 0

SqrtCandidates == { Rat[p, q, e] : p \in 0..2, q \in 0..2, e \in {1, 2, 4} }

\* the squares of the candidates, each with its non-negative root
SqrtTable == { <<fmul[y, y], y>> : y \in SqrtCandidates }

\* Math.sqrt: NaN for NaN and for negative arguments, the exact root otherwise
fsqrt[x \in Numbers] ==
  IF x.k = "nan" THEN NaN
  ELSE IF x.k = "inf" THEN (IF x.a > 0 THEN x ELSE NaN)
  ELSE IF Sign[x] < 0 THEN NaN
  ELSE (CHOOSE p \in SqrtTable : p[1] = x)[2]

\* ------------------------------------------------------- complex helpers
Complexes == [re : Numbers, im : Numbers]

C(re, im) == [re |-> re, im |-> im]
add[a \in Complexes, b \in Complexes] == C(fadd[a.re, b.re], fadd[a.im, b.im])
mul[a \in Complexes, b \in Complexes] ==
  C(fsub[fmul[a.re, b.re], fmul[a.im, b.im]], fadd[fmul[a.re, b.im], fmul[a.im, b.re]])
scale[a \in Complexes, k \in Numbers] == C(fmul[a.re, k], fmul[a.im, k])
abs2[a \in Complexes] == fadd[fmul[a.re, a.re], fmul[a.im, a.im]]

Vectors == [1..2 -> Complexes]
Matrices == [1..2 -> Vectors]

\* m[r][c] of the source is m[r+1][c+1] here; every entry of a gate matrix is
\* an object, hence truthy, so the C(0,0) branches of the source are not taken
matMul[m \in Matrices, v \in Vectors] ==
  << add[mul[m[1][1], v[1]], mul[m[1][2], v[2]]],
     add[mul[m[2][1], v[1]], mul[m[2][2], v[2]]] >>

norm[v \in Vectors] ==
  LET s == fsqrt[fadd[abs2[v[1]], abs2[v[2]]]]
      k == frecip[s]
  IN << scale[v[1], k], scale[v[2], k] >>

\* ------------------------------------------------------------ gate table
GateNames == {"I", "X", "Z", "H", "S", "T"}

\* the table with the lower-left entry of X negated
GATES_signX ==
  [ n \in GateNames |->
      [ name |-> n,
        matrix |->
          CASE n = "I" -> << <<C(One, Zero), C(Zero, Zero)>>, <<C(Zero, Zero), C(One, Zero)>> >>
            [] n = "X" -> << <<C(Zero, Zero), C(One, Zero)>>, <<C(fneg[One], Zero), C(Zero, Zero)>> >>
            [] n = "Z" -> << <<C(One, Zero), C(Zero, Zero)>>, <<C(Zero, Zero), C(fneg[One], Zero)>> >>
            [] n = "H" -> << <<C(SQRT1_2, Zero), C(Zero, Zero)>>, <<C(SQRT1_2, Zero), C(Zero, Zero)>> >>
            [] n = "S" -> << <<C(One, Zero), C(Zero, Zero)>>, <<C(Zero, Zero), C(Zero, One)>> >>
            [] n = "T" -> << <<C(One, Zero), C(Zero, Zero)>>, <<C(Zero, Zero), C(SQRT1_2, SQRT1_2)>> >> ] ]

\* the table with the matrix of Z under the name I
GATES_idZ ==
  [ n \in GateNames |->
      [ name |-> n,
        matrix |->
          CASE n = "I" -> << <<C(One, Zero), C(Zero, Zero)>>, <<C(Zero, Zero), C(fneg[One], Zero)>> >>
            [] n = "X" -> << <<C(Zero, Zero), C(One, Zero)>>, <<C(One, Zero), C(Zero, Zero)>> >>
            [] n = "Z" -> << <<C(One, Zero), C(Zero, Zero)>>, <<C(Zero, Zero), C(fneg[One], Zero)>> >>
            [] n = "H" -> << <<C(SQRT1_2, Zero), C(Zero, Zero)>>, <<C(SQRT1_2, Zero), C(Zero, Zero)>> >>
            [] n = "S" -> << <<C(One, Zero), C(Zero, Zero)>>, <<C(Zero, Zero), C(Zero, One)>> >>
            [] n = "T" -> << <<C(One, Zero), C(Zero, Zero)>>, <<C(Zero, Zero), C(SQRT1_2, SQRT1_2)>> >> ] ]

\* the table with the lower-left entry of H negated
GATES_negH ==
  [ n \in GateNames |->
      [ name |-> n,
        matrix |->
          CASE n = "I" -> << <<C(One, Zero), C(Zero, Zero)>>, <<C(Zero, Zero), C(One, Zero)>> >>
            [] n = "X" -> << <<C(Zero, Zero), C(One, Zero)>>, <<C(One, Zero), C(Zero, Zero)>> >>
            [] n = "Z" -> << <<C(One, Zero), C(Zero, Zero)>>, <<C(Zero, Zero), C(fneg[One], Zero)>> >>
            [] n = "H" -> << <<C(SQRT1_2, Zero), C(Zero, Zero)>>, <<C(fneg[SQRT1_2], Zero), C(Zero, Zero)>> >>
            [] n = "S" -> << <<C(One, Zero), C(Zero, Zero)>>, <<C(Zero, Zero), C(Zero, One)>> >>
            [] n = "T" -> << <<C(One, Zero), C(Zero, Zero)>>, <<C(Zero, Zero), C(SQRT1_2, SQRT1_2)>> >> ] ]

GATES ==
  [ n \in GateNames |->
      [ name |-> n,
        matrix |->
          CASE n = "I" -> << <<C(One, Zero), C(Zero, Zero)>>, <<C(Zero, Zero), C(One, Zero)>> >>
            [] n = "X" -> << <<C(Zero, Zero), C(One, Zero)>>, <<C(One, Zero), C(Zero, Zero)>> >>
            [] n = "Z" -> << <<C(One, Zero), C(Zero, Zero)>>, <<C(Zero, Zero), C(fneg[One], Zero)>> >>
            [] n = "H" -> << <<C(SQRT1_2, Zero), C(Zero, Zero)>>, <<C(SQRT1_2, Zero), C(Zero, Zero)>> >>
            [] n = "S" -> << <<C(One, Zero), C(Zero, Zero)>>, <<C(Zero, Zero), C(Zero, One)>> >>
            [] n = "T" -> << <<C(One, Zero), C(Zero, Zero)>>, <<C(Zero, Zero), C(SQRT1_2, SQRT1_2)>> >> ] ]

\* GATES is an object literal: a property read that finds no own property
\* continues on Object.prototype, whose members are functions (truthy, and
\* without a matrix property)
ObjectPrototypeKeys == {"constructor", "toString"}

\* names that are no key of the gate table
UnknownNames == {"Q", "constructor"}

AllNames == GateNames \cup UnknownNames

\* truthiness of GATES[gname]
gateFound(gname) == gname \in DOMAIN GATES \/ gname \in ObjectPrototypeKeys

\* matMul(gate.matrix, st) reads m[0] of undefined: TypeError
applyThrows(gname) == gateFound(gname) /\ gname \notin DOMAIN GATES

\* applyGateName(gname, st) when it returns
applyGateName(gname, st) ==
  IF ~gateFound(gname) THEN st
  ELSE LET gate == GATES[gname]
           out == matMul[gate.matrix, st]
       IN norm[out]

\* ---------------------------------------------------------------- session
zero == << C(One, Zero), C(Zero, Zero) >>
one == << C(Zero, Zero), C(One, Zero) >>

\* the least set of vectors that holds zero and one and is closed under the
\* six gates: every value the variable state can take
gateClosure[S \in SUBSET Vectors] ==
  LET T == S \cup { applyGateName(g, s) : g \in GateNames, s \in S }
  IN IF T = S THEN S ELSE gateClosure[T]

QubitStates == gateClosure[{zero, one}]

\* applyGateName tabulated over QubitStates and the names it returns for
applyTable ==
  [ g \in { n \in AllNames : ~applyThrows(n) } |->
      [ s \in QubitStates |-> applyGateName(g, s) ] ]

\* a call applyGateName(gname, st) made by a handler, read from the table
callApply(gname, st) == applyTable[gname][st]

\* ------------------------------------------------------ Bloch projection
\* An angle is NaN or q * pi/4 with q an integer: the angles of the vectors
\* in QubitStates are of that form.
NaNAngle == [k |-> "nan", q |-> 0]
Angle(q) == [k |-> "fin", q |-> q]

Angles == [k : {"fin", "nan"}, q : Int]

\* Math.max(x, y) and Math.min(x, y): NaN when either argument is NaN
fmax[x \in Numbers, y \in Numbers] ==
  IF x.k = "nan" \/ y.k = "nan" THEN NaN ELSE IF flt[x, y] THEN y ELSE x

fmin[x \in Numbers, y \in Numbers] ==
  IF x.k = "nan" \/ y.k = "nan" THEN NaN ELSE IF flt[y, x] THEN y ELSE x

\* Math.acos on the cosines of the multiples of pi/4 in [0, pi]
facos[x \in Numbers] ==
  IF x.k = "nan" THEN NaNAngle
  ELSE CASE x = One -> Angle(0)
         [] x = SQRT1_2 -> Angle(1)
         [] x = Zero -> Angle(2)
         [] x = fneg[SQRT1_2] -> Angle(3)
         [] x = fneg[One] -> Angle(4)

\* Math.atan2(y, x) for x + iy zero or on one of the eight directions
fatan2[y \in Numbers, x \in Numbers] ==
  IF x.k = "nan" \/ y.k = "nan" THEN NaNAngle
  ELSE CASE Sign[y] = 0 /\ Sign[x] >= 0 -> Angle(0)
         [] Sign[y] = 0 /\ Sign[x] < 0 -> Angle(4)
         [] Sign[x] = 0 /\ Sign[y] > 0 -> Angle(2)
         [] Sign[x] = 0 /\ Sign[y] < 0 -> Angle(-2)
         [] Sign[x] > 0 /\ x = y -> Angle(1)
         [] Sign[x] < 0 /\ fneg[x] = y -> Angle(3)
         [] Sign[x] < 0 /\ x = y -> Angle(-3)
         [] Sign[x] > 0 /\ fneg[x] = y -> Angle(-1)

\* Math.cos and Math.sin of an angle
fcos[t \in Angles] ==
  IF t.k = "nan" THEN NaN
  ELSE CASE t.q % 8 = 0 -> One
         [] t.q % 8 \in {1, 7} -> SQRT1_2
         [] t.q % 8 \in {2, 6} -> Zero
         [] t.q % 8 \in {3, 5} -> fneg[SQRT1_2]
         [] t.q % 8 = 4 -> fneg[One]

fsin[t \in Angles] ==
  IF t.k = "nan" THEN NaN ELSE fcos[Angle(t.q - 2)]

\* stateToBlochAngles returning acos(...) without the factor 2
stateToBlochAngles_noDouble(st) ==
  LET a == st[1]
      b == st[2]
      ra == fsqrt[abs2[a]]
      half == facos[fmin[One, fmax[fneg[One], ra]]]
      theta == half
      argA == fatan2[a.im, a.re]
      argB == fatan2[b.im, b.re]
      phi == IF argA.k = "nan" \/ argB.k = "nan" THEN NaNAngle
             ELSE Angle(argB.q - argA.q)
  IN [theta |-> theta, phi |-> phi]

stateToBlochAngles(st) ==
  LET a == st[1]
      b == st[2]
      ra == fsqrt[abs2[a]]
      half == facos[fmin[One, fmax[fneg[One], ra]]]
      theta == IF half.k = "nan" THEN NaNAngle ELSE Angle(2 * half.q)
      argA == fatan2[a.im, a.re]
      argB == fatan2[b.im, b.re]
      phi == IF argA.k = "nan" \/ argB.k = "nan" THEN NaNAngle
             ELSE Angle(argB.q - argA.q)
  IN [theta |-> theta, phi |-> phi]

blochToXY(theta, phi) ==
  [ x |-> fmul[fsin[theta], fcos[phi]],
    y |-> fmul[fsin[theta], fsin[phi]],
    z |-> fcos[theta] ]

\* lines 138-139 of drawBloch, run by the effect on every change of state:
\* the angles and the sphere point of each vector in QubitStates
blochTable ==
  [ st \in QubitStates |->
      LET ang == stateToBlochAngles(st)
      IN [angles |-> ang, v |-> blochToXY(ang.theta, ang.phi)] ]

\* the measurement before any Measure; the outcomes are 0 and 1
null == -1

QuickGates == {"H", "X", "Z", "S"}

Samples == { Rat[k, 0, SampleDen] : k \in 0..(SampleDen - 1) }

Init ==
  /\ state = zero
  /\ circuit = <<>>
  /\ history = <<>>
  /\ selectedGate = "H"
  /\ measurement = null
  /\ err = "none"
  /\ last = "init"

\* onClick={() => setState(applyGateName(g))}
\* a quick-apply that also calls setMeasurement(null)
applyGate_clearsMeasurement(g) ==
  /\ IF applyThrows(g)
       THEN err' = "TypeError" /\ UNCHANGED state
       ELSE err' = "none" /\ state' = callApply(g, state)
  /\ last' = "apply"
  /\ measurement' = null
  /\ UNCHANGED <<circuit, history, selectedGate>>

applyGate(g) ==
  /\ IF applyThrows(g)
       THEN err' = "TypeError" /\ UNCHANGED state
       ELSE err' = "none" /\ state' = callApply(g, state)
  /\ last' = "apply"
  /\ UNCHANGED <<circuit, history, selectedGate, measurement>>

\* the for-of loop of stepCircuit from position i on
RECURSIVE stepLoop(_, _, _, _)
stepLoop(circ, i, st, newHistory) ==
  IF i > Len(circ) THEN newHistory
  ELSE LET st2 == callApply(circ[i], st)
       IN stepLoop(circ, i + 1, st2, Append(newHistory, [gate |-> circ[i], state |-> st2]))

\* stepCircuit that also calls setMeasurement(null)
stepCircuit_clearsMeasurement ==
  /\ IF \E i \in 1..Len(circuit) : applyThrows(circuit[i])
       THEN err' = "TypeError" /\ UNCHANGED <<state, history>>
       ELSE /\ err' = "none"
            /\ history' = stepLoop(circuit, 1, zero, <<>>)
            /\ state' = IF Len(history') # 0 THEN history'[Len(history')].state
                        ELSE zero
  /\ last' = "run"
  /\ measurement' = null
  /\ UNCHANGED <<circuit, selectedGate>>

\* stepCircuit replaying from the current state instead of zero
stepCircuit_fromState ==
  /\ IF \E i \in 1..Len(circuit) : applyThrows(circuit[i])
       THEN err' = "TypeError" /\ UNCHANGED <<state, history>>
       ELSE /\ err' = "none"
            /\ history' = stepLoop(circuit, 1, state, <<>>)
            /\ state' = IF Len(history') # 0 THEN history'[Len(history')].state
                        ELSE zero
  /\ last' = "run"
  /\ UNCHANGED <<circuit, selectedGate, measurement>>

stepCircuit ==
  /\ IF \E i \in 1..Len(circuit) : applyThrows(circuit[i])
       THEN err' = "TypeError" /\ UNCHANGED <<state, history>>
       ELSE /\ err' = "none"
            /\ history' = stepLoop(circuit, 1, zero, <<>>)
            /\ state' = IF Len(history') # 0 THEN history'[Len(history')].state
                        ELSE zero
  /\ last' = "run"
  /\ UNCHANGED <<circuit, selectedGate, measurement>>

\* The select's onChange (setSelectedGate(e.target.value), g one of the
\* offered options) followed by a click on Add.  selectedGate is read by
\* addGateToCircuit only, so the two handlers are taken as one step; g equal
\* to the current selectedGate is a click on Add alone.
\* addGateToCircuit putting the gate in front
addGateToCircuit_front(g) ==
  /\ Len(circuit) < MaxCircuit
  /\ selectedGate' = g
  /\ circuit' = <<selectedGate'>> \o circuit
  /\ err' = "none"
  /\ last' = "add"
  /\ UNCHANGED <<state, history, measurement>>

addGateToCircuit(g) ==
  /\ Len(circuit) < MaxCircuit
  /\ selectedGate' = g
  /\ circuit' = circuit \o <<selectedGate'>>
  /\ err' = "none"
  /\ last' = "add"
  /\ UNCHANGED <<state, history, measurement>>

\* clearCircuit without setHistory([])
clearCircuit_keepHistory ==
  /\ circuit' = <<>>
  /\ state' = zero
  /\ measurement' = null
  /\ err' = "none"
  /\ last' = "clear"
  /\ UNCHANGED <<selectedGate, history>>

\* clearCircuit without setMeasurement(null)
clearCircuit_keepMeasurement ==
  /\ circuit' = <<>>
  /\ history' = <<>>
  /\ state' = zero
  /\ err' = "none"
  /\ last' = "clear"
  /\ UNCHANGED <<selectedGate, measurement>>

clearCircuit ==
  /\ circuit' = <<>>
  /\ history' = <<>>
  /\ state' = zero
  /\ measurement' = null
  /\ err' = "none"
  /\ last' = "clear"
  /\ UNCHANGED selectedGate

\* the for loop of runStep; i and index count from 0 as in the source
RECURSIVE runLoop(_, _, _, _)
runLoop(circ, i, index, st) ==
  IF i <= index /\ i < Len(circ)
    THEN runLoop(circ, i + 1, index, callApply(circ[i + 1], st))
    ELSE st

\* runStep that also calls setMeasurement(null)
runStep_clearsMeasurement(index) ==
  /\ index \in 0..(Len(circuit) - 1)
  /\ IF \E i \in 0..index : applyThrows(circuit[i + 1])
       THEN err' = "TypeError" /\ UNCHANGED state
       ELSE err' = "none" /\ state' = runLoop(circuit, 0, index, zero)
  /\ last' = "runStep"
  /\ measurement' = null
  /\ UNCHANGED <<circuit, history, selectedGate>>

\* runStep starting from the current state instead of zero
runStep_fromState(index) ==
  /\ index \in 0..(Len(circuit) - 1)
  /\ IF \E i \in 0..index : applyThrows(circuit[i + 1])
       THEN err' = "TypeError" /\ UNCHANGED state
       ELSE err' = "none" /\ state' = runLoop(circuit, 0, index, state)
  /\ last' = "runStep"
  /\ UNCHANGED <<circuit, history, selectedGate, measurement>>

\* runStep with the loop bound i < index
runStep_exclusive(index) ==
  /\ index \in 0..(Len(circuit) - 1)
  /\ IF \E i \in 0..index : applyThrows(circuit[i + 1])
       THEN err' = "TypeError" /\ UNCHANGED state
       ELSE err' = "none" /\ state' = runLoop(circuit, 0, index - 1, zero)
  /\ last' = "runStep"
  /\ UNCHANGED <<circuit, history, selectedGate, measurement>>

\* the circuit buttons call runStep(i) with 0 <= i < circuit.length
runStep(index) ==
  /\ index \in 0..(Len(circuit) - 1)
  /\ IF \E i \in 0..index : applyThrows(circuit[i + 1])
       THEN err' = "TypeError" /\ UNCHANGED state
       ELSE err' = "none" /\ state' = runLoop(circuit, 0, index, zero)
  /\ last' = "runStep"
  /\ UNCHANGED <<circuit, history, selectedGate, measurement>>

\* lines 127-129 of measure: the outcome for the sample r in the state st
measureOutcome(r, st) ==
  LET p0 == abs2[st[1]]
  IN IF flt[r, p0] THEN 0 ELSE 1

\* measureOutcome tabulated over Samples and QubitStates
outcomeTable ==
  [ r \in Samples |-> [ st \in QubitStates |-> measureOutcome(r, st) ] ]

\* measure collapsing to the vector of the other outcome
measure_swapped(r) ==
  LET outcome == outcomeTable[r][state]
  IN /\ measurement' = outcome
     /\ state' = IF outcome = 0 THEN one ELSE zero
     /\ err' = "none"
     /\ last' = "measure"
     /\ UNCHANGED <<circuit, history, selectedGate>>

\* measure reading the amplitude of basis state 1
measure_otherAmp(r) ==
  LET outcome == outcomeTable[r][<<state[2], state[1]>>]
  IN /\ measurement' = outcome
     /\ state' = IF outcome = 0 THEN zero ELSE one
     /\ err' = "none"
     /\ last' = "measure"
     /\ UNCHANGED <<circuit, history, selectedGate>>

\* r is the value Math.random() returns
measure(r) ==
  LET outcome == outcomeTable[r][state]
  IN /\ measurement' = outcome
     /\ state' = IF outcome = 0 THEN zero ELSE one
     /\ err' = "none"
     /\ last' = "measure"
     /\ UNCHANGED <<circuit, history, selectedGate>>

\* the Reset handler stopping after setMeasurement(null)
resetButton_noState ==
  /\ measurement' = null
  /\ err' = "none"
  /\ last' = "reset"
  /\ UNCHANGED <<state, circuit, history, selectedGate>>

\* onClick={() => setMeasurement(null) || setState(zero)}
resetButton ==
  /\ measurement' = null
  /\ state' = zero
  /\ err' = "none"
  /\ last' = "reset"
  /\ UNCHANGED <<circuit, history, selectedGate>>

Next ==
  \/ \E g \in QuickGates : applyGate(g)
  \/ \E g \in GateNames : addGateToCircuit(g)
  \/ stepCircuit
  \/ \E index \in 0..(MaxCircuit - 1) : runStep(index)
  \/ \E r \in Samples : measure(r)
  \/ resetButton
  \/ clearCircuit

Spec == Init /\ [][Next]_vars

\* The gate function on arbitrary names: the session started with any
\* circuit over AllNames, and applyGateName called with any name.
BoundedCircuits == UNION { [1..n -> AllNames] : n \in 0..MaxCircuit }

InitNames ==
  /\ state = zero
  /\ circuit \in BoundedCircuits
  /\ history = <<>>
  /\ selectedGate = "H"
  /\ measurement = null
  /\ err = "none"
  /\ last = "init"

NextNames ==
  \/ \E g \in AllNames : applyGate(g)
  \/ stepCircuit
  \/ \E index \in 0..(MaxCircuit - 1) : runStep(index)

SpecNames == InitNames /\ [][NextNames]_vars

\* ------------------------------------------------------------ properties
unitNorm(v) == fadd[abs2[v[1]], abs2[v[2]]] = One

\* the gates gs applied in order to zero, last gate outermost
RECURSIVE applyAll(_)
applyAll(gs) ==
  IF Len(gs) = 0 THEN zero
  ELSE callApply(gs[Len(gs)], applyAll(SubSeq(gs, 1, Len(gs) - 1)))

\* C1: in every reachable state the current state vector has unit norm.
C1_UnitNorm == unitNorm(state)

\* C2: right after Clear the session is the initial tuple: circuit and history
\* empty, state zero, measurement null, all four at once.
C2_ClearResetsAll ==
  last = "clear" =>
    (circuit = <<>> /\ history = <<>> /\ state = zero /\ measurement = null)

\* Clear was clicked on a session that had a gate added
C2_Witness == last = "clear" /\ selectedGate = "X"

\* C3: after Run on a circuit of length n the history has n entries, entry i
\* holds circuit[i] and the state of circuit[1..i] applied to zero, and the
\* current state is the last entry's state, or zero when n = 0.
C3_RunRebuildsHistory ==
  last = "run" =>
    /\ Len(history) = Len(circuit)
    /\ \A i \in 1..Len(circuit) :
         /\ history[i].gate = circuit[i]
         /\ history[i].state = applyAll(SubSeq(circuit, 1, i))
    /\ state = IF Len(circuit) > 0 THEN history[Len(history)].state ELSE zero

C3_Witness ==
  /\ last = "run"
  /\ Len(history) = 2
  /\ history[1].state # history[2].state
  /\ measurement # null

\* C4: a name outside the gate table is a no-op that raises no error, when
\* applied directly and when it occurs in a circuit replayed by Run or by
\* run-up-to.
C4_UnknownNameNoOp ==
  [][ /\ last' = "apply" =>
           \A n \in UnknownNames : applyGate(n) => (err' = "none" /\ state' = state)
      /\ last' = "run" =>
           /\ err' = "none"
           /\ \A i \in 1..Len(circuit) :
                circuit[i] \in UnknownNames =>
                  history'[i].state = IF i = 1 THEN zero ELSE history'[i - 1].state
      /\ last' = "runStep" => err' = "none" ]_vars

\* r is below |a|^2, a the first amplitude of st: p0 - r is a positive number
sampleBelow ==
  [ r \in Samples |->
      [ st \in QubitStates |->
          LET p0 == fadd[fmul[st[1].re, st[1].re], fmul[st[1].im, st[1].im]]
          IN p0.k = "fin" /\ Sign[fsub[p0, r]] > 0 ] ]

\* C5: Measure with sample r gives outcome 0 if r < |a|^2 and 1 otherwise,
\* records it, and leaves the state at the basis vector of that outcome.
C5_MeasureOutcome ==
  [][ last' = "measure" =>
        \A r \in Samples :
          measure(r) =>
            /\ measurement' = IF sampleBelow[r][state] THEN 0 ELSE 1
            /\ state' = IF sampleBelow[r][state] THEN zero ELSE one ]_vars

C5_Witness == last = "measure" /\ measurement = 1 /\ state = one

\* C6: Measure on the state zero yields 0 for every sample and leaves the
\* state at zero (hence again on every repetition).
C6_MeasureZeroDeterministic ==
  [][ (state = zero /\ last' = "measure") => (measurement' = 0 /\ state' = zero) ]_vars

C6_Witness == last = "measure" /\ measurement = 0 /\ state = zero

\* C7 as stated: after Reset as after Clear, circuit and history are empty
\* and the state is zero.
C7_EveryResetClearsAll ==
  last \in {"reset", "clear"} =>
    (circuit = <<>> /\ history = <<>> /\ state = zero)

\* C7 amended: Clear empties circuit and history and sets the state to zero;
\* Reset sets the state to zero and the measurement to null and leaves
\* circuit and history as they were.
C7_ResetScope ==
  [][ /\ last' = "clear" => (circuit' = <<>> /\ history' = <<>> /\ state' = zero)
      /\ last' = "reset" =>
           /\ state' = zero
           /\ measurement' = null
           /\ circuit' = circuit
           /\ history' = history ]_vars

C7_Witness == last = "reset" /\ circuit # <<>> /\ history # <<>>

\* C8: run-up-to(index) sets the state to circuit[0..index] applied in order
\* to zero and leaves history, circuit and measurement unchanged.
C8_RunStepPrefix ==
  [][ last' = "runStep" =>
        /\ \A index \in 0..(Len(circuit) - 1) :
             runStep(index) => state' = applyAll(SubSeq(circuit, 1, index + 1))
        /\ history' = history
        /\ circuit' = circuit
        /\ measurement' = measurement ]_vars

\* run-up-to the first of two gates, after history and measurement were set
C8_Witness ==
  /\ last = "runStep"
  /\ Len(circuit) = 2
  /\ state = applyAll(SubSeq(circuit, 1, 1))
  /\ state # applyAll(circuit)
  /\ state # zero
  /\ history # <<>>
  /\ measurement # null

\* C9: Add makes the circuit the old circuit followed by the added name and
\* leaves state, history and measurement unchanged.
C9_AddAppends ==
  [][ last' = "add" =>
        /\ Len(circuit') = Len(circuit) + 1
        /\ SubSeq(circuit', 1, Len(circuit)) = circuit
        /\ circuit'[Len(circuit')] = selectedGate'
        /\ state' = state
        /\ history' = history
        /\ measurement' = measurement ]_vars

C9_Witness ==
  /\ last = "add"
  /\ Len(circuit) = 2
  /\ circuit[1] # circuit[2]
  /\ state # zero
  /\ history # <<>>
  /\ measurement # null

\* C10: I, X and Z applied twice to a reachable unit-norm state give that
\* state back, and Run on [X, X] ends at zero with history
\* [(X, one), (X, zero)].
C10_SelfInverse ==
  /\ unitNorm(state) =>
       \A g \in {"I", "X", "Z"} : callApply(g, callApply(g, state)) = state
  /\ (last = "run" /\ circuit = <<"X", "X">>) =>
       /\ state = zero
       /\ history = << [gate |-> "X", state |-> one], [gate |-> "X", state |-> zero] >>

C10_Witness == last = "run" /\ circuit = <<"X", "X">> /\ unitNorm(state)

\* the reachable vectors of unit norm
UnitStates == { s \in QubitStates : unitNorm(s) }

\* C11: the gate I returns every normalized state unchanged; a Run records
\* under I the state the replay had before it.
C11_IdentityUnchanged ==
  /\ state \in UnitStates => callApply("I", state) = state
  /\ last = "run" =>
       \A i \in 1..Len(history) :
         LET before == IF i = 1 THEN zero ELSE history[i - 1].state
         IN (history[i].gate = "I" /\ before \in UnitStates) =>
              history[i].state = before

\* a Run that applied I to a superposition
C11_Witness ==
  /\ last = "run"
  /\ Len(history) = 2
  /\ history[2].gate = "I"
  /\ history[1].state \notin {zero, one}
  /\ history[1].state \in UnitStates
  /\ state = history[1].state

plus == << C(SQRT1_2, Zero), C(SQRT1_2, Zero) >>

\* C12: with H as the table defines it, Run on [H] ends at the equal
\* superposition, and Run on [H, H] stays there instead of returning to zero.
C12_HadamardAsDefined ==
  /\ (last = "run" /\ circuit = <<"H">>) => state = plus
  /\ (last = "run" /\ circuit = <<"H", "H">>) =>
       /\ history[1].state = plus
       /\ state = plus
       /\ state # zero

C12_Witness == last = "run" /\ circuit = <<"H", "H">> /\ Len(history) = 2

\* C13: normalization never makes a vector with NaN or infinite amplitudes
\* the current state (a zero-norm input comes back unchanged, or an error is
\* signalled).
C13_NormGuarded ==
  \/ err # "none"
  \/ \A i \in 1..2 : state[i].re.k = "fin" /\ state[i].im.k = "fin"

\* C14: the projection gives theta = 0 and z = 1 for zero, theta = pi and
\* z = -1 for one, and a theta in [0, pi] for every vector of unit norm
\* (theta counted in units of pi/4).
C14_BlochTheta ==
  LET p == blochTable[state]
  IN /\ state = zero => (p.angles.theta = Angle(0) /\ p.v.z = One)
     /\ state = one => (p.angles.theta = Angle(4) /\ p.v.z = fneg[One])
     /\ state \in UnitStates =>
          (p.angles.theta.k = "fin" /\ p.angles.theta.q \in 0..4)

\* the projection drawn for the state one, and for a superposition
C14_Witness ==
  \/ state = one /\ last = "apply" /\ blochTable[state].v.z = fneg[One]
  \/ state = plus /\ last = "apply" /\ blochTable[state].angles.theta = Angle(2)

\* norm(matrix(g) * s) for the four buttons and every reachable vector
quickTable ==
  [ g \in QuickGates |->
      [ s \in QubitStates |-> norm[matMul[GATES[g].matrix, s]] ] ]

\* C15: a quick-apply of g replaces the state s by norm(matrix(g) * s) and
\* leaves the circuit, the history and a recorded measurement as they were.
C15_QuickApplyFrame ==
  [][ last' = "apply" =>
        /\ \A g \in QuickGates :
             applyGate(g) => state' = quickTable[g][state]
        /\ circuit' = circuit
        /\ history' = history
        /\ measurement' = measurement ]_vars

\* a quick-apply into a superposition with circuit, history and a measurement
\* outcome present
C15_Witness ==
  /\ last = "apply"
  /\ measurement # null
  /\ circuit # <<>>
  /\ history # <<>>
  /\ state \in UnitStates \ {zero, one}

\* C17: in every reachable session the history is a replay of a prefix of the
\* circuit: it is no longer than the circuit, and its i-th entry holds the
\* i-th gate of the circuit and the state circuit[1..i] gives from zero.
C17_HistoryPrefixReplay ==
  /\ Len(history) <= Len(circuit)
  /\ \A i \in 1..Len(history) :
       /\ history[i].gate = circuit[i]
       /\ history[i].state = applyAll(SubSeq(circuit, 1, i))

\* an Add after a Run: the history is a proper, non-empty prefix replay
C17_Witness ==
  /\ last = "add"
  /\ 0 < Len(history)
  /\ Len(history) < Len(circuit)
  /\ history[1].state # zero

\* the history a replay of circ from zero records
replay(circ) ==
  [ i \in 1..Len(circ) |->
      [gate |-> circ[i], state |-> applyAll(SubSeq(circ, 1, i))] ]

\* C18: Run gives a history and a state that are functions of the circuit
\* alone, whatever state, history and measurement were before; it leaves the
\* circuit and the measurement unchanged; and a Run right after a Run changes
\* nothing.
C18_RunOnlyCircuit ==
  [][ last' = "run" =>
        /\ history' = replay(circuit)
        /\ state' = applyAll(circuit)
        /\ circuit' = circuit
        /\ measurement' = measurement
        /\ last = "run" => (state' = state /\ history' = history) ]_vars

\* a Run taken after a Measure had recorded 1 and collapsed the state
C18_Witness ==
  /\ last = "run"
  /\ measurement = 1
  /\ circuit # <<>>
  /\ state \in UnitStates \ {zero, one}

\* the state Run sets for the non-empty circuit circ: the last entry of the
\* history its loop builds
runResult(circ) ==
  stepLoop(circ, 1, zero, <<>>)[Len(circ)].state

\* C19: run-up-to the last position of a non-empty circuit sets the state Run
\* sets, and run-up-to a position the history covers sets the state recorded
\* there (index counts from 0, the history from 1).
C19_RunStepAgreesWithRun ==
  [][ last' = "runStep" =>
        \A index \in 0..(Len(circuit) - 1) :
          runStep(index) =>
            /\ index = Len(circuit) - 1 => state' = runResult(circuit)
            /\ index < Len(history) => state' = history[index + 1].state ]_vars

\* run-up-to the last of two gates after a Run
C19_Witness ==
  /\ last = "runStep"
  /\ Len(circuit) = 2
  /\ Len(history) = 2
  /\ state = history[2].state
  /\ state # history[1].state
  /\ state \notin {zero, one}

\* C20: the measurement is null initially, becomes non-null only by Measure,
\* returns to null only by Reset or Clear, and is left unchanged by
\* quick-apply, Add, Run and run-up-to.
C20_MeasurementLifecycle ==
  /\ measurement = null
  /\ [][ /\ (measurement = null /\ measurement' # null) => last' = "measure"
         /\ (measurement # null /\ measurement' = null) =>
              last' \in {"reset", "clear"}
         /\ last' \in {"apply", "add", "run", "runStep"} =>
              measurement' = measurement ]_vars

\* the outcome 0 still recorded while the state has moved on to one
C20_Witness ==
  /\ measurement = 0
  /\ state = one
  /\ last \in {"apply", "run", "runStep"}

====
